---------------------------- MODULE Spec2Model ----------------------------
(* Generation and export pipelines of the syllabus content API:             *)
(* job records, their background workers, the AI provider registry and the *)
(* artifact retrieval guard.  The job store holds the committed rows; a     *)
(* worker step is everything the worker does up to and including one        *)
(* db.commit(), which is what a status reader in another session can see.   *)
EXTENDS Integers, Sequences, FiniteSets, TLC

VARIABLES
    documents,            \* document id -> "absent" | "processed" | "error" | "deleted"
    api_keys,             \* settings: providers with an API key configured
    services,             \* MultiAIService.services (its key set)
    primary_provider,     \* MultiAIService.primary_provider
    fallback_providers,   \* MultiAIService.fallback_providers
    generations,          \* committed Generation rows, id = index
    genTask,              \* per generation: position and locals of its worker task
    contents,             \* committed Content rows, id = index
    edits,                \* update/delete requests between their query and their commit
    exports,              \* committed Export rows, id = index
    expTask,              \* per export: position and locals of its worker task
    files,                \* export directory: path -> written text
    now,                  \* clock, in hours
    resp                  \* answer to the last request of the job and content API

vars == <<documents, api_keys, services, primary_provider, fallback_providers,
          generations, genTask, contents, edits, exports, expTask, files, now,
          resp>>

registryVars == <<services, primary_provider, fallback_providers>>
genVars == <<generations, genTask>>
expVars == <<exports, expTask, files>>

-----------------------------------------------------------------------------
(* Bounds of the model *)

MaxDocs == 1
MaxGenerations == 1
MaxExports == 1
MaxTime == 36
MaxCreateTime == 12
MaxAdds == 2
MaxVersion == 2
MaxLines == 3
MaxConcurrent == 2
MaxInFlight == 2

(* Program constants *)

ExpiryHours == 24

\* SQL NULL / Python None, one per kind of value: of a string or enum, of
\* an integer or datetime, and of a text built from several parts
NULL == "null"
NoValue == -1
Nothing == <<>>

DocIds == 1..MaxDocs

\* AIProvider enum
AIProviders == {"openai", "claude", "gemini", "groq", "cohere", "ollama", "xai"}

\* providers a request names in the model: one that settings can register
\* (as the primary), one that is never registered
RequestProviders == {"groq", "xai"}

\* settings the model varies: the keys of two providers, the others unset
KeyConfigs == SUBSET {"openai", "groq"}

\* ContentType values a request names in the model
RequestContentTypes == {"study_guide"}

\* GenerationStatus / ExportStatus
STARTED == "started"
IN_PROGRESS == "in_progress"
COMPLETED == "completed"
FAILED == "failed"

Terminal(status) == status \in {COMPLETED, FAILED}

-----------------------------------------------------------------------------
(* Generated text.  A text is the sequence of its lines (split on "\n"); a  *)
(* line is what the structuring code can tell about it: whether it starts   *)
(* with "# ", which section keywords its lowercased text contains, and the  *)
(* rest of its text.                                                        *)

IntroKeywords == {"introducción", "introduction", "objetivo"}
ObjectiveKeywords == {"objetivo", "objective"}
ConclusionKeywords == {"conclusión", "conclusion", "resumen"}

Line(txt, h1, kw) == [txt |-> txt, h1 |-> h1, kw |-> kw]

\* model handed to the factory for each provider (default when none is given)
ModelOf(p) ==
    CASE p = "openai" -> "gpt-4"
      [] p = "claude" -> "claude-3-sonnet-20240229"
      [] p = "gemini" -> "gemini-pro"
      [] p = "cohere" -> "command"
      [] OTHER -> "mixtral-8x7b-32768"

\* GroqService.generate_content: the canned session, its headings and the
\* lines that carry a keyword kept, the keyword-free runs between them
\* shortened to one line each
GroqText(model) ==
    << Line("", FALSE, {}),
       Line("Sesión de Clase Generada por IA", TRUE, {}),
       Line("## Introducción", FALSE, {"introducción"}),
       Line("Esta es una sesión de clase generada automáticamente", FALSE, {}),
       Line("## Objetivos", FALSE, {"objetivo"}),
       Line("- Comprender los conceptos fundamentales del tema", FALSE, {}),
       Line("## Desarrollo del Tema", FALSE, {}),
       Line("## Conclusiones", FALSE, {"conclusion"}),
       Line("- Resumen de puntos clave", FALSE, {"resumen"}),
       Line("## Recursos Necesarios", FALSE, {}),
       Line(model, FALSE, {}) >>

\* the document returned when no provider produced anything
DemoText ==
    << Line("", FALSE, {}),
       Line("Contenido Demo", TRUE, {}),
       Line("Este es contenido de demostración", FALSE, {}),
       Line("## Para configurar un proveedor:", FALSE, {}),
       Line("## Proveedores soportados:", FALSE, {}) >>

\* AIServiceFactory.create_service: every provider gets a GroqService
BackendText(p) == GroqText(ModelOf(p))

ProviderError(p) == <<"provider error", p>>

-----------------------------------------------------------------------------
(* Provider registry: MultiAIService *)

EmptyRegistry ==
    [services |-> {}, primary_provider |-> NULL, fallback_providers |-> <<>>]

add_provider(reg, provider, is_primary) ==
    [services |-> reg.services \cup {provider},
     primary_provider |-> IF is_primary THEN provider ELSE reg.primary_provider,
     fallback_providers |-> IF is_primary THEN reg.fallback_providers
                            ELSE Append(reg.fallback_providers, provider)]

\* ContentService._initialize_ai_service: one add_provider per configured key
initialize_ai_service(keys) ==
    LET r0 == EmptyRegistry
        r1 == IF "openai" \in keys THEN add_provider(r0, "openai", FALSE) ELSE r0
        r2 == IF "claude" \in keys THEN add_provider(r1, "claude", FALSE) ELSE r1
        r3 == IF "gemini" \in keys THEN add_provider(r2, "gemini", FALSE) ELSE r2
        r4 == IF "groq" \in keys THEN add_provider(r3, "groq", TRUE) ELSE r3
        r5 == IF "cohere" \in keys THEN add_provider(r4, "cohere", FALSE) ELSE r4
    IN  r5

Returned(text, calls) ==
    [raised |-> FALSE, text |-> text, error |-> Nothing, calls |-> calls]
Raised(error, calls) ==
    [raised |-> TRUE, text |-> Nothing, error |-> error, calls |-> calls]

\* variant: the loop over the fallbacks ends with an error instead of the demo
\* document
RECURSIVE try_fallbacks_raising(_, _, _, _)
try_fallbacks_raising(fbs, svc, failing, calls) ==
    IF fbs = <<>> THEN Raised(<<"no provider available">>, calls)
    ELSE LET p == Head(fbs) IN
         IF p \in svc
         THEN IF p \in failing
              THEN try_fallbacks_raising(Tail(fbs), svc, failing, Append(calls, p))
              ELSE Returned(BackendText(p), Append(calls, p))
         ELSE try_fallbacks_raising(Tail(fbs), svc, failing, calls)

\* variant: the loop goes through the fallbacks from the newest to the oldest
RECURSIVE try_fallbacks_newest_first(_, _, _, _)
try_fallbacks_newest_first(fbs, svc, failing, calls) ==
    IF fbs = <<>> THEN Returned(DemoText, calls)
    ELSE LET p == fbs[Len(fbs)]
             rest == SubSeq(fbs, 1, Len(fbs) - 1)
         IN  IF p \in svc
             THEN IF p \in failing
                  THEN try_fallbacks_newest_first(rest, svc, failing, Append(calls, p))
                  ELSE Returned(BackendText(p), Append(calls, p))
             ELSE try_fallbacks_newest_first(rest, svc, failing, calls)

\* the loop over fallback_providers and the demo document after it;
\* failing is the set of providers whose backend call raises
RECURSIVE try_fallbacks(_, _, _, _)
try_fallbacks(fbs, svc, failing, calls) ==
    IF fbs = <<>> THEN Returned(DemoText, calls)
    ELSE LET p == Head(fbs) IN
         IF p \in svc
         THEN IF p \in failing
              THEN try_fallbacks(Tail(fbs), svc, failing, Append(calls, p))
              ELSE Returned(BackendText(p), Append(calls, p))
         ELSE try_fallbacks(Tail(fbs), svc, failing, calls)

\* variant: an explicit provider that is not registered is an error
multi_generate_content_strict(reg, provider, failing) ==
    IF provider # NULL
    THEN IF provider \notin reg.services
         THEN Raised(<<"unknown provider">>, <<>>)
         ELSE IF provider \in failing
              THEN Raised(ProviderError(provider), <<provider>>)
              ELSE Returned(BackendText(provider), <<provider>>)
    ELSE IF reg.primary_provider # NULL /\ reg.primary_provider \in reg.services
         THEN IF reg.primary_provider \in failing
              THEN try_fallbacks(reg.fallback_providers, reg.services, failing,
                                 <<reg.primary_provider>>)
              ELSE Returned(BackendText(reg.primary_provider),
                            <<reg.primary_provider>>)
         ELSE try_fallbacks(reg.fallback_providers, reg.services, failing, <<>>)

\* variant: a failure of the explicit provider falls through to the primary
\* and the fallbacks
multi_generate_content_falling_back(reg, provider, failing) ==
    IF provider # NULL /\ provider \in reg.services /\ provider \notin failing
    THEN Returned(BackendText(provider), <<provider>>)
    ELSE LET tried == IF provider # NULL /\ provider \in reg.services
                      THEN <<provider>> ELSE <<>>
         IN  IF reg.primary_provider # NULL /\ reg.primary_provider \in reg.services
             THEN IF reg.primary_provider \in failing
                  THEN try_fallbacks(reg.fallback_providers, reg.services, failing,
                                     Append(tried, reg.primary_provider))
                  ELSE Returned(BackendText(reg.primary_provider),
                                Append(tried, reg.primary_provider))
             ELSE try_fallbacks(reg.fallback_providers, reg.services, failing, tried)

\* MultiAIService.generate_content; provider is NULL when none is given
multi_generate_content(reg, provider, failing) ==
    IF provider # NULL /\ provider \in reg.services
    THEN IF provider \in failing
         THEN Raised(ProviderError(provider), <<provider>>)
         ELSE Returned(BackendText(provider), <<provider>>)
    ELSE IF reg.primary_provider # NULL /\ reg.primary_provider \in reg.services
         THEN IF reg.primary_provider \in failing
              THEN try_fallbacks(reg.fallback_providers, reg.services, failing,
                                 <<reg.primary_provider>>)
              ELSE Returned(BackendText(reg.primary_provider),
                            <<reg.primary_provider>>)
         ELSE try_fallbacks(reg.fallback_providers, reg.services, failing, <<>>)

Registry ==
    [services |-> services, primary_provider |-> primary_provider,
     fallback_providers |-> fallback_providers]

-----------------------------------------------------------------------------
(* Content structuring: ContentService._structure_content *)

DefaultTitle == "Contenido Generado"

RECURSIVE extract_title(_)
extract_title(lines) ==
    IF lines = <<>> THEN DefaultTitle
    ELSE IF Head(lines).h1 THEN Head(lines).txt
    ELSE extract_title(Tail(lines))

EmptySections ==
    [introduction |-> <<>>, objectives |-> <<>>, development |-> <<>>,
     conclusion |-> <<>>]

\* the section a line switches to, NULL when it carries no keyword
line_section(line) ==
    IF line.kw \cap IntroKeywords # {} THEN "introduction"
    ELSE IF line.kw \cap ObjectiveKeywords # {} THEN "objectives"
    ELSE IF line.kw \cap ConclusionKeywords # {} THEN "conclusion"
    ELSE NULL

\* sections[current_section] = '\n'.join(section_content), when non-empty
flush(sections, current, buf) ==
    IF buf # <<>> THEN [sections EXCEPT ![current] = buf] ELSE sections

RECURSIVE scan_lines(_, _, _, _)
scan_lines(lines, sections, current, buf) ==
    IF lines = <<>> THEN flush(sections, current, buf)
    ELSE LET line == Head(lines)
             target == line_section(line)
         IN  IF target # NULL
             THEN scan_lines(Tail(lines), flush(sections, current, buf),
                             target, <<line>>)
             ELSE scan_lines(Tail(lines), sections, current, Append(buf, line))

\* variant: the scan starts in the introduction
structure_content_from_introduction(ai_content) ==
    [title |-> extract_title(ai_content),
     markdown |-> ai_content,
     sections |-> scan_lines(ai_content, EmptySections, "introduction", <<>>)]

structure_content(ai_content) ==
    [title |-> extract_title(ai_content),
     markdown |-> ai_content,
     sections |-> scan_lines(ai_content, EmptySections, "development", <<>>)]

-----------------------------------------------------------------------------
(* A request answers with an HTTP status code.  resp keeps the code, the    *)
(* id of the row the request read or created and, for a request that        *)
(* creates a job, the status it returns; what a status query returns is the *)
(* committed row itself.                                                    *)

Response(op, code, id, status) ==
    [op |-> op, code |-> code, detail |-> NULL, id |-> id, status |-> status]

\* HTTPException(status_code, detail)
HTTPException(op, code, detail) ==
    [op |-> op, code |-> code, detail |-> detail, id |-> 0, status |-> NULL]

NoResponse == Response(NULL, 0, 0, NULL)

GenIds == 1..Len(generations)
ContentIds == 1..Len(contents)
ExportIds == 1..Len(exports)

-----------------------------------------------------------------------------
(* Document store: DocumentService *)

\* upload_document: the row is committed before the text is extracted; a
\* failed extraction leaves the row with status ERROR and no text_content
UploadDocument(d, extracted) ==
    /\ documents[d] = "absent"
    /\ documents' = [documents EXCEPT
                        ![d] = IF extracted THEN "processed" ELSE "error"]
    /\ UNCHANGED <<api_keys, edits, registryVars, genVars, contents, expVars, now, resp>>

\* variant: deleting a document cancels the jobs that are waiting for a
\* provider on its behalf
DeleteDocument_cancelling(d) ==
    /\ documents[d] \in {"processed", "error"}
    /\ documents' = [documents EXCEPT ![d] = "deleted"]
    /\ generations' =
           [j \in DOMAIN generations |->
               IF generations[j].document_id = d /\ genTask[j].pc = "awaiting"
               THEN [generations[j] EXCEPT !.status = FAILED, !.completed_at = now]
               ELSE generations[j]]
    /\ UNCHANGED <<api_keys, edits, registryVars, genTask, contents, expVars, now, resp>>

DeleteDocument(d) ==
    /\ documents[d] \in {"processed", "error"}
    /\ documents' = [documents EXCEPT ![d] = "deleted"]
    /\ UNCHANGED <<api_keys, edits, registryVars, genVars, contents, expVars, now, resp>>

\* variant: the document row is not looked up
DocumentExists_unchecked(d) == d \in DocIds

DocumentExists(d) == d \in DocIds /\ documents[d] \in {"processed", "error"}

-----------------------------------------------------------------------------
(* Generation pipeline: ContentService *)

NewGeneration(d, ctype, provider) ==
    [document_id |-> d, content_type |-> ctype, ai_provider |-> provider,
     status |-> STARTED, progress |-> 0, error_message |-> Nothing,
     created_at |-> now, started_at |-> NoValue, completed_at |-> NoValue]

NewTask == [pc |-> "scheduled", call |-> Nothing, dispatches |-> 0]

\* variant: the request runs the worker up to its first commit before it
\* returns
GenerateContent_awaiting_pickup(d, ctype, provider, cap) ==
    IF ~DocumentExists(d)
    THEN /\ resp' = HTTPException("generate_content", 404, "Documento no encontrado")
         /\ UNCHANGED <<documents, api_keys, edits, registryVars, genVars, contents,
                        expVars, now>>
    ELSE /\ Len(generations) < cap
         /\ generations' = Append(generations,
                                  [NewGeneration(d, ctype, provider) EXCEPT
                                      !.status = IN_PROGRESS,
                                      !.started_at = now,
                                      !.progress = 10])
         /\ genTask' = Append(genTask, [NewTask EXCEPT !.pc = "build_prompt"])
         /\ resp' = Response("generate_content", 200, Len(generations) + 1,
                             generations'[Len(generations) + 1].status)
         /\ UNCHANGED <<documents, api_keys, edits, registryVars, contents, expVars, now>>

\* ContentService.generate_content; cap bounds the number of jobs
GenerateContent(d, ctype, provider, cap) ==
    IF ~DocumentExists(d)
    THEN /\ resp' = HTTPException("generate_content", 404, "Documento no encontrado")
         /\ UNCHANGED <<documents, api_keys, edits, registryVars, genVars, contents,
                        expVars, now>>
    ELSE /\ Len(generations) < cap
         /\ generations' = Append(generations, NewGeneration(d, ctype, provider))
         /\ genTask' = Append(genTask, NewTask)
         /\ resp' = Response("generate_content", 200, Len(generations) + 1,
                             generations'[Len(generations) + 1].status)
         /\ UNCHANGED <<documents, api_keys, edits, registryVars, contents, expVars, now>>

\* variant: the worker swallows the exception and ends without a write
GenFail_swallowing(j, message) ==
    /\ generations' = generations
    /\ genTask' = [genTask EXCEPT ![j].pc = "done"]

\* variant: the except branch resets the progress
GenFail_resetting_progress(j, message) ==
    /\ generations' = [generations EXCEPT
                          ![j].status = FAILED,
                          ![j].progress = 0,
                          ![j].error_message = message,
                          ![j].completed_at = now]
    /\ genTask' = [genTask EXCEPT ![j].pc = "done"]

\* variant: the except branch records the status only
GenFail_status_only(j, message) ==
    /\ generations' = [generations EXCEPT ![j].status = FAILED]
    /\ genTask' = [genTask EXCEPT ![j].pc = "done"]

\* the except branch of _process_generation: the row keeps the progress of its
\* last commit
GenFail(j, message) ==
    /\ generations' = [generations EXCEPT
                          ![j].status = FAILED,
                          ![j].error_message = message,
                          ![j].completed_at = now]
    /\ genTask' = [genTask EXCEPT ![j].pc = "done"]

\* variant: the worker picks up the oldest row that has not been started
\* instead of the row of its own job
GenPickup_oldest_started(j) ==
    /\ genTask[j].pc = "scheduled"
    /\ LET k == CHOOSE k \in GenIds :
                    /\ generations[k].status = STARTED
                    /\ \A i \in GenIds : generations[i].status = STARTED => k <= i
       IN  generations' = [generations EXCEPT
                              ![k].status = IN_PROGRESS,
                              ![k].started_at = now,
                              ![k].progress = 10]
    /\ genTask' = [genTask EXCEPT ![j].pc = "build_prompt"]
    /\ UNCHANGED <<documents, api_keys, edits, registryVars, contents, expVars,
                   now, resp>>

\* variant: a run that is over is picked up again
GenPickup_again(j) ==
    /\ genTask[j].pc \in {"scheduled", "done"}
    /\ generations' = [generations EXCEPT
                          ![j].status = IN_PROGRESS,
                          ![j].started_at = now,
                          ![j].progress = 10]
    /\ genTask' = [genTask EXCEPT ![j].pc = "build_prompt"]
    /\ UNCHANGED <<documents, api_keys, edits, registryVars, contents, expVars,
                   now, resp>>

\* worker pickup: IN_PROGRESS, started_at, progress 10, commit
GenPickup(j) ==
    /\ genTask[j].pc = "scheduled"
    /\ generations' = [generations EXCEPT
                          ![j].status = IN_PROGRESS,
                          ![j].started_at = now,
                          ![j].progress = 10]
    /\ genTask' = [genTask EXCEPT ![j].pc = "build_prompt"]
    /\ UNCHANGED <<documents, api_keys, edits, registryVars, contents, expVars,
                   now, resp>>

\* document lookup, _build_prompt, _build_system_prompt, progress 30, commit.
\* _build_prompt reads document.text_content[:3000]: it raises when the
\* document row is gone and when the row has no text_content
GenBuildPrompt(j) ==
    /\ genTask[j].pc = "build_prompt"
    /\ LET doc == documents[generations[j].document_id] IN
       IF doc = "deleted"
       THEN GenFail(j, <<"'NoneType' object has no attribute 'text_content'">>)
       ELSE IF doc = "error"
       THEN GenFail(j, <<"'NoneType' object is not subscriptable">>)
       ELSE /\ generations' = [generations EXCEPT ![j].progress = 30]
            /\ genTask' = [genTask EXCEPT ![j].pc = "dispatch"]
    /\ UNCHANGED <<documents, api_keys, edits, registryVars, contents, expVars,
                   now, resp>>

\* variant: progress 70 is committed when the call starts
GenDispatch_committing_early(j, failing) ==
    /\ genTask[j].pc = "dispatch"
    /\ genTask' = [genTask EXCEPT
                      ![j].pc = "awaiting",
                      ![j].dispatches = @ + 1,
                      ![j].call = multi_generate_content(
                                      Registry, generations[j].ai_provider, failing)]
    /\ generations' = [generations EXCEPT ![j].progress = 70]
    /\ UNCHANGED <<documents, api_keys, edits, registryVars, contents,
                   expVars, now, resp>>

\* the call of ai_service.generate_content with provider=generation.ai_provider;
\* the worker is suspended until the call returns or raises
GenDispatch(j, failing) ==
    /\ genTask[j].pc = "dispatch"
    /\ genTask' = [genTask EXCEPT
                      ![j].pc = "awaiting",
                      ![j].dispatches = @ + 1,
                      ![j].call = multi_generate_content(
                                      Registry, generations[j].ai_provider, failing)]
    /\ UNCHANGED <<documents, api_keys, edits, registryVars, generations, contents,
                   expVars, now, resp>>

\* the call is over: progress 70, commit; or the except branch
GenReturn(j) ==
    /\ genTask[j].pc = "awaiting"
    /\ IF genTask[j].call.raised
       THEN GenFail(j, genTask[j].call.error)
       ELSE /\ generations' = [generations EXCEPT ![j].progress = 70]
            /\ genTask' = [genTask EXCEPT ![j].pc = "structure"]
    /\ UNCHANGED <<documents, api_keys, edits, registryVars, contents, expVars,
                   now, resp>>

\* variant: the metadata names the provider that answered the call
NewContent_naming_answerer(j, structured) ==
    [generation_id |-> j,
     document_id |-> generations[j].document_id,
     title |-> structured.title,
     content_type |-> generations[j].content_type,
     markdown_content |-> structured.markdown,
     sections |-> structured.sections,
     content_metadata |->
         [ai_provider |-> IF genTask[j].call.text = DemoText THEN "demo"
                          ELSE genTask[j].call.calls[Len(genTask[j].call.calls)]],
     version |-> 1,
     is_active |-> TRUE]

NewContent(j, structured) ==
    [generation_id |-> j,
     document_id |-> generations[j].document_id,
     title |-> structured.title,
     content_type |-> generations[j].content_type,
     markdown_content |-> structured.markdown,
     sections |-> structured.sections,
     content_metadata |-> [ai_provider |-> generations[j].ai_provider],
     version |-> 1,
     is_active |-> TRUE]

\* variant: the Content row is committed on its own, before the status
GenFinish_in_two_commits(j, stored) ==
    /\ genTask[j].pc = "structure"
    /\ contents' = Append(contents,
                          NewContent(j, structure_content(genTask[j].call.text)))
    /\ IF stored
       THEN /\ generations' = [generations EXCEPT
                                  ![j].status = COMPLETED,
                                  ![j].progress = 100,
                                  ![j].completed_at = now]
            /\ genTask' = [genTask EXCEPT ![j].pc = "done"]
       ELSE GenFail(j, <<"database error">>)
    /\ UNCHANGED <<documents, api_keys, edits, registryVars, expVars, now, resp>>

\* _structure_content, the Content row, COMPLETED / 100 / completed_at, one
\* commit for both rows.  When that commit raises (stored) the session rolls
\* both rows back and the except branch runs on the row as last committed.
GenFinish(j, stored) ==
    /\ genTask[j].pc = "structure"
    /\ IF stored
       THEN /\ contents' = Append(contents,
                                  NewContent(j, structure_content(genTask[j].call.text)))
            /\ generations' = [generations EXCEPT
                                  ![j].status = COMPLETED,
                                  ![j].progress = 100,
                                  ![j].completed_at = now]
            /\ genTask' = [genTask EXCEPT ![j].pc = "done"]
       ELSE /\ GenFail(j, <<"database error">>)
            /\ UNCHANGED contents
    /\ UNCHANGED <<documents, api_keys, edits, registryVars, expVars, now, resp>>

ContentsOf(j) == {c \in ContentIds : contents[c].generation_id = j}

\* ContentService.get_generation_status: a plain fetch of the committed row
\* and of the Content rows of the job (results)
GetGenerationStatus(j) ==
    IF j \in GenIds
    THEN /\ resp' = [results |-> ContentsOf(j)] @@
                     Response("get_generation_status", 200, j, generations[j].status)
         /\ UNCHANGED <<documents, api_keys, edits, registryVars, genVars, contents,
                        expVars, now>>
    ELSE /\ resp' = HTTPException("get_generation_status", 404,
                                  "Generación no encontrada")
         /\ UNCHANGED <<documents, api_keys, edits, registryVars, genVars, contents,
                        expVars, now>>

-----------------------------------------------------------------------------
(* Content edits: ContentService.update_content / delete_content *)

ActiveContent(c) == c \in ContentIds /\ contents[c].is_active

\* update_content and delete_content run without another request between
\* their query and their commit.
\* title is NULL when the request leaves it out; cap bounds the version counter
UpdateContent(c, title, cap) ==
    IF ~ActiveContent(c)
    THEN /\ resp' = HTTPException("update_content", 404, "Contenido no encontrado")
         /\ UNCHANGED <<documents, api_keys, edits, registryVars, genVars, contents,
                        expVars, now>>
    ELSE /\ contents[c].version < cap
         /\ contents' = [contents EXCEPT
                            ![c].title = IF title # NULL THEN title ELSE @,
                            ![c].version = @ + 1]
         /\ resp' = Response("update_content", 200, c, NULL)
         /\ UNCHANGED <<documents, api_keys, edits, registryVars, genVars, expVars, now>>

DeleteContent(c) ==
    IF ~ActiveContent(c)
    THEN /\ resp' = HTTPException("delete_content", 404, "Contenido no encontrado")
         /\ UNCHANGED <<documents, api_keys, edits, registryVars, genVars, contents,
                        expVars, now>>
    ELSE /\ contents' = [contents EXCEPT ![c].is_active = FALSE]
         /\ resp' = Response("delete_content", 200, c, NULL)
         /\ UNCHANGED <<documents, api_keys, edits, registryVars, genVars, expVars, now>>

\* The content endpoints are plain functions, which the framework runs on a
\* pool of threads, each request with a session of its own: the requests
\* below are split at the commit. A request in edits has queried the row
\* (and holds the values it read) and has not committed.

NotFound(op, c) ==
    [content_id |-> c] @@ HTTPException(op, 404, "Contenido no encontrado")

\* ContentResponse / ContentDeleteResponse, with the row as the session reads it
ContentResponse(op, c, row) ==
    [content_id |-> c, title |-> row.title, version |-> row.version]
        @@ Response(op, 200, c, NULL)

RemoveAt(seq, i) == SubSeq(seq, 1, i - 1) \o SubSeq(seq, i + 1, Len(seq))

GetContentById(c) ==
    /\ resp' = IF ActiveContent(c)
               THEN ContentResponse("get_content_by_id", c, contents[c])
               ELSE NotFound("get_content_by_id", c)
    /\ UNCHANGED <<documents, api_keys, edits, registryVars, genVars, contents,
                   expVars, now>>

\* variant: the query of update_content does not filter on is_active
UpdateRead_unfiltered(c, title, cap) ==
    IF c \notin ContentIds
    THEN /\ resp' = NotFound("update_content", c)
         /\ UNCHANGED <<documents, api_keys, edits, registryVars, genVars,
                        contents, expVars, now>>
    ELSE /\ Len(edits) < MaxInFlight
         /\ contents[c].version < cap
         /\ edits' = Append(edits, [op |-> "update_content", id |-> c,
                                    title |-> title,
                                    version |-> contents[c].version])
         /\ UNCHANGED <<documents, api_keys, registryVars, genVars, contents,
                        expVars, now, resp>>

\* update_content up to its commit: the query with the is_active filter, the
\* 404, and the assignments to the loaded object (version += 1 on the value
\* that was read)
UpdateRead(c, title, cap) ==
    IF ~ActiveContent(c)
    THEN /\ resp' = NotFound("update_content", c)
         /\ UNCHANGED <<documents, api_keys, edits, registryVars, genVars,
                        contents, expVars, now>>
    ELSE /\ Len(edits) < MaxInFlight
         /\ contents[c].version < cap
         /\ edits' = Append(edits, [op |-> "update_content", id |-> c,
                                    title |-> title,
                                    version |-> contents[c].version])
         /\ UNCHANGED <<documents, api_keys, registryVars, genVars, contents,
                        expVars, now, resp>>

\* the commit of update_content writes the columns that were assigned, then
\* refresh and get_content_by_id, which raises 404 when the row is inactive
UpdateCommit(i) ==
    /\ i \in 1..Len(edits)
    /\ edits[i].op = "update_content"
    /\ LET r == edits[i] IN
       /\ contents' = [contents EXCEPT
                          ![r.id].title = IF r.title # NULL THEN r.title ELSE @,
                          ![r.id].version = r.version + 1]
       /\ resp' = IF contents[r.id].is_active
                  THEN ContentResponse("update_content", r.id, contents'[r.id])
                  ELSE NotFound("update_content", r.id)
    /\ edits' = RemoveAt(edits, i)
    /\ UNCHANGED <<documents, api_keys, registryVars, genVars, expVars, now>>

\* delete_content up to its commit
DeleteRead(c) ==
    IF ~ActiveContent(c)
    THEN /\ resp' = NotFound("delete_content", c)
         /\ UNCHANGED <<documents, api_keys, edits, registryVars, genVars,
                        contents, expVars, now>>
    ELSE /\ Len(edits) < MaxInFlight
         /\ edits' = Append(edits, [op |-> "delete_content", id |-> c,
                                    title |-> NULL, version |-> NoValue])
         /\ UNCHANGED <<documents, api_keys, registryVars, genVars, contents,
                        expVars, now, resp>>

\* the commit of delete_content writes is_active (and updated_at) only
DeleteCommit(i) ==
    /\ i \in 1..Len(edits)
    /\ edits[i].op = "delete_content"
    /\ contents' = [contents EXCEPT ![edits[i].id].is_active = FALSE]
    /\ resp' = [content_id |-> edits[i].id]
                   @@ Response("delete_content", 200, edits[i].id, NULL)
    /\ edits' = RemoveAt(edits, i)
    /\ UNCHANGED <<documents, api_keys, registryVars, genVars, expVars, now>>

-----------------------------------------------------------------------------
(* Export pipeline: ExportService *)

\* the template store, read-only here
Templates == {1}

Range(seq) == {seq[i] : i \in 1..Len(seq)}

\* Export(...): expires_at is set by the constructor
NewExport(type, template_id, content_ids, format) ==
    [export_type |-> type, template_id |-> template_id,
     content_ids |-> content_ids, format |-> format,
     status |-> STARTED, progress |-> 0,
     filename |-> Nothing, file_path |-> Nothing, file_size |-> NoValue,
     download_url |-> Nothing,
     expires_at |-> now + ExpiryHours,
     created_at |-> now, started_at |-> NoValue, completed_at |-> NoValue,
     error_message |-> Nothing]

NewExportTask == [pc |-> "scheduled", fetched |-> <<>>, filename |-> Nothing]

CreateExport(op, row) ==
    /\ exports' = Append(exports, row)
    /\ expTask' = Append(expTask, NewExportTask)
    /\ resp' = Response(op, 200, Len(exports) + 1, exports'[Len(exports) + 1].status)
    /\ UNCHANGED <<documents, api_keys, edits, registryVars, genVars, contents, files, now>>

\* the rejection of a combined request, with the list that was requested
RejectList(op, code, detail, cids) ==
    /\ resp' = [request |-> cids] @@ HTTPException(op, code, detail)
    /\ UNCHANGED <<documents, api_keys, edits, registryVars, genVars, contents,
                   expVars, now>>

Reject(op, code, detail) ==
    /\ resp' = HTTPException(op, code, detail)
    /\ UNCHANGED <<documents, api_keys, edits, registryVars, genVars, contents,
                   expVars, now>>

\* ExportService.export_individual; template_id is NoValue when none is named
ExportIndividual(c, format, template_id, cap) ==
    IF c \notin ContentIds
    THEN Reject("export_individual", 404, "Contenido no encontrado")
    ELSE IF template_id # NoValue /\ template_id \notin Templates
    THEN Reject("export_individual", 404, "Plantilla no encontrada")
    ELSE /\ Len(exports) < cap
         /\ now <= MaxCreateTime
         /\ CreateExport("export_individual",
                         NewExport("individual", template_id, <<c>>, format))

\* ExportService.export_combined: the rows found are counted against the ids
\* requested; the template is not looked up
ExportCombined(cids, format, template_id, cap) ==
    IF Cardinality(Range(cids) \cap ContentIds) # Len(cids)
    THEN RejectList("export_combined", 404,
                    "Algunos contenidos no fueron encontrados", cids)
    ELSE /\ Len(exports) < cap
         /\ now <= MaxCreateTime
         /\ CreateExport("export_combined",
                         NewExport("combined", template_id, cids, format))

\* variant: the except branch puts the progress back to 0
ExpFail_resetting_progress(e, message, assigned) ==
    /\ exports' = [exports EXCEPT
                      ![e] = [status |-> FAILED, error_message |-> message,
                              completed_at |-> now, progress |-> 0]
                                 @@ assigned @@ exports[e]]
    /\ expTask' = [expTask EXCEPT ![e].pc = "done"]

\* variant: the except branch of the export workers records no message
ExpFail_without_message(e, message, assigned) ==
    /\ exports' = [exports EXCEPT
                      ![e] = [status |-> FAILED, completed_at |-> now]
                                 @@ assigned @@ exports[e]]
    /\ expTask' = [expTask EXCEPT ![e].pc = "done"]

\* variant: the except branch of the export workers sets no completed_at
ExpFail_without_timestamp(e, message, assigned) ==
    /\ exports' = [exports EXCEPT
                      ![e] = [status |-> FAILED, error_message |-> message]
                                 @@ assigned @@ exports[e]]
    /\ expTask' = [expTask EXCEPT ![e].pc = "done"]

\* the except branch of both export workers: the fields the worker assigned
\* since its last commit (assigned) are committed together with FAILED
ExpFail(e, message, assigned) ==
    /\ exports' = [exports EXCEPT
                      ![e] = [status |-> FAILED, error_message |-> message,
                              completed_at |-> now] @@ assigned @@ exports[e]]
    /\ expTask' = [expTask EXCEPT ![e].pc = "done"]

NothingAssigned == [f \in {} |-> NULL]

\* variant: the worker computes the expiry again when it starts
ExpPickup_recomputing_expiry(e) ==
    /\ expTask[e].pc = "scheduled"
    /\ exports' = [exports EXCEPT
                      ![e].status = IN_PROGRESS,
                      ![e].started_at = now,
                      ![e].progress = 10,
                      ![e].expires_at = now + ExpiryHours]
    /\ expTask' = [expTask EXCEPT ![e].pc = "fetch"]
    /\ UNCHANGED <<documents, api_keys, edits, registryVars, genVars, contents, files,
                   now, resp>>

\* worker pickup: IN_PROGRESS, started_at, progress 10, commit
ExpPickup(e) ==
    /\ expTask[e].pc = "scheduled"
    /\ exports' = [exports EXCEPT
                      ![e].status = IN_PROGRESS,
                      ![e].started_at = now,
                      ![e].progress = 10]
    /\ expTask' = [expTask EXCEPT ![e].pc = "fetch"]
    /\ UNCHANGED <<documents, api_keys, edits, registryVars, genVars, contents, files,
                   now, resp>>

Orderings(S) ==
    {seq \in UNION {[1..n -> S] : n \in {Cardinality(S)}} : Range(seq) = S}

\* variant: the fetch commits no progress
ExpFetch_without_commit(e) ==
    /\ expTask[e].pc = "fetch"
    /\ \E order \in Orderings(Range(exports[e].content_ids) \cap ContentIds) :
           expTask' = [expTask EXCEPT ![e].pc = "name", ![e].fetched = order]
    /\ UNCHANGED <<documents, api_keys, edits, registryVars, genVars, contents, files,
                   now, resp, exports>>

\* query of the content row(s), progress 30, commit.  The combined worker
\* gets the rows of Content.id.in_(content_ids) in the order the store returns
\* them (order); the individual worker gets .first()
ExpFetch(e) ==
    /\ expTask[e].pc = "fetch"
    /\ \E order \in Orderings(Range(exports[e].content_ids) \cap ContentIds) :
           expTask' = [expTask EXCEPT ![e].pc = "name", ![e].fetched = order]
    /\ exports' = [exports EXCEPT ![e].progress = 30]
    /\ UNCHANGED <<documents, api_keys, edits, registryVars, genVars, contents, files,
                   now, resp>>

\* content_{id}_{%Y%m%d_%H%M%S}.{format} / combined_{%Y%m%d_%H%M%S}.{format}
Filename(e) ==
    IF exports[e].export_type = "individual"
    THEN <<"content", exports[e].content_ids[1], now, exports[e].format>>
    ELSE <<"combined", now, exports[e].format>>

\* file name, progress 60, commit
ExpName(e) ==
    /\ expTask[e].pc = "name"
    /\ exports' = [exports EXCEPT ![e].progress = 60]
    /\ expTask' = [expTask EXCEPT ![e].pc = "render", ![e].filename = Filename(e)]
    /\ UNCHANGED <<documents, api_keys, edits, registryVars, genVars, contents, files,
                   now, resp>>

SupportedFormats == {"pdf", "docx", "latex"}

Part(c) == [title |-> contents[c].title, body |-> contents[c].markdown_content]

\* _generate_pdf_content / _generate_latex_content wrap title and body in a
\* LaTeX article, _generate_docx_content in an HTML page
IndividualText(format, c) ==
    [markup |-> IF format = "docx" THEN "html" ELSE "latex",
     title |-> contents[c].title,
     toc |-> FALSE,
     parts |-> <<Part(c)>>]

\* _combine_contents ("\section{title}" and the body of each row, in the
\* order of the rows) inside the combined wrapper of the format
CombinedText(format, rows) ==
    [markup |-> IF format = "docx" THEN "html" ELSE "latex",
     title |-> "Documento Combinado",
     toc |-> format # "docx",
     parts |-> [i \in 1..Len(rows) |-> Part(rows[i])]]

FileSize(text) == Len(text.parts)

PathOf(filename) == <<"exports", filename>>

\* variant: a format without a generator is rendered like pdf
ExpRender_defaulting_to_pdf(e, outcome) ==
    /\ expTask[e].pc = "render"
    /\ LET x == exports[e]
           name == expTask[e].filename
           text == IF x.export_type = "individual"
                   THEN IndividualText(x.format, expTask[e].fetched[1])
                   ELSE CombinedText(x.format, expTask[e].fetched)
       IN  IF outcome = "write"
           THEN /\ ExpFail(e, <<"write error">>, NothingAssigned)
                /\ UNCHANGED files
           ELSE IF outcome = "stat"
           THEN /\ ExpFail(e, <<"No such file or directory">>,
                           [filename |-> name, file_path |-> PathOf(name)])
                /\ files' = [p \in DOMAIN files \ {PathOf(name)} |-> files[p]]
           ELSE IF outcome = "commit"
           THEN /\ ExpFail(e, <<"database error">>, NothingAssigned)
                /\ files' = (PathOf(name) :> text) @@ files
           ELSE /\ files' = (PathOf(name) :> text) @@ files
                /\ exports' = [exports EXCEPT
                                  ![e].filename = name,
                                  ![e].file_path = PathOf(name),
                                  ![e].file_size = FileSize(text),
                                  ![e].download_url = <<"/api/v1/export", e, "download">>,
                                  ![e].status = COMPLETED,
                                  ![e].progress = 100,
                                  ![e].completed_at = now]
                /\ expTask' = [expTask EXCEPT ![e].pc = "done"]
    /\ UNCHANGED <<documents, api_keys, edits, registryVars, genVars, contents, now, resp>>

\* rendering, the file write, the artifact fields, COMPLETED / 100, commit.
\* outcome: "ok"; "write" when open()/write() raises; "stat" when the file is
\* gone again by the time file_path.stat() runs, after filename and file_path
\* have been assigned; "commit" when the last commit raises: the session rolls
\* the row back and the except branch runs on the row as last committed,
\* the file stays
ExpRender(e, outcome) ==
    /\ expTask[e].pc = "render"
    /\ LET x == exports[e]
           name == expTask[e].filename
           text == IF x.export_type = "individual"
                   THEN IndividualText(x.format, expTask[e].fetched[1])
                   ELSE CombinedText(x.format, expTask[e].fetched)
       IN  IF x.format \notin SupportedFormats
           THEN /\ ExpFail(e, <<"Formato no soportado", x.format>>, NothingAssigned)
                /\ UNCHANGED files
           ELSE IF outcome = "write"
           THEN /\ ExpFail(e, <<"write error">>, NothingAssigned)
                /\ UNCHANGED files
           ELSE IF outcome = "stat"
           THEN /\ ExpFail(e, <<"No such file or directory">>,
                           [filename |-> name, file_path |-> PathOf(name)])
                /\ files' = [p \in DOMAIN files \ {PathOf(name)} |-> files[p]]
           ELSE IF outcome = "commit"
           THEN /\ ExpFail(e, <<"database error">>, NothingAssigned)
                /\ files' = (PathOf(name) :> text) @@ files
           ELSE /\ files' = (PathOf(name) :> text) @@ files
                /\ exports' = [exports EXCEPT
                                  ![e].filename = name,
                                  ![e].file_path = PathOf(name),
                                  ![e].file_size = FileSize(text),
                                  ![e].download_url = <<"/api/v1/export", e, "download">>,
                                  ![e].status = COMPLETED,
                                  ![e].progress = 100,
                                  ![e].completed_at = now]
                /\ expTask' = [expTask EXCEPT ![e].pc = "done"]
    /\ UNCHANGED <<documents, api_keys, edits, registryVars, genVars, contents, now, resp>>

\* ExportService.get_export_status
GetExportStatus(e) ==
    IF e \in ExportIds
    THEN /\ resp' = Response("get_export_status", 200, e, NULL)
         /\ UNCHANGED <<documents, api_keys, edits, registryVars, genVars, contents,
                        expVars, now>>
    ELSE Reject("get_export_status", 404, "Exportación no encontrada")

\* variant: the expiry is checked before the status
get_file_path_expiry_first(e) ==
    IF e \notin ExportIds
    THEN [code |-> 404, detail |-> "Exportación no encontrada", path |-> Nothing]
    ELSE IF exports[e].expires_at < now
    THEN [code |-> 410, detail |-> "Archivo expirado", path |-> Nothing]
    ELSE IF exports[e].status # COMPLETED
    THEN [code |-> 400, detail |-> "Exportación no completada", path |-> Nothing]
    ELSE IF exports[e].file_path = Nothing \/ exports[e].file_path \notin DOMAIN files
    THEN [code |-> 404, detail |-> "Archivo no encontrado", path |-> Nothing]
    ELSE [code |-> 200, detail |-> NULL, path |-> exports[e].file_path]

\* variant: the artifact is expired from the instant expires_at on
get_file_path_expired_at_expiry(e) ==
    IF e \notin ExportIds
    THEN [code |-> 404, detail |-> "Exportación no encontrada", path |-> Nothing]
    ELSE IF exports[e].status # COMPLETED
    THEN [code |-> 400, detail |-> "Exportación no completada", path |-> Nothing]
    ELSE IF exports[e].expires_at <= now
    THEN [code |-> 410, detail |-> "Archivo expirado", path |-> Nothing]
    ELSE IF exports[e].file_path = Nothing \/ exports[e].file_path \notin DOMAIN files
    THEN [code |-> 404, detail |-> "Archivo no encontrado", path |-> Nothing]
    ELSE [code |-> 200, detail |-> NULL, path |-> exports[e].file_path]

\* ExportService.get_file_path: the answer for export id e at the present time
get_file_path(e) ==
    IF e \notin ExportIds
    THEN [code |-> 404, detail |-> "Exportación no encontrada", path |-> Nothing]
    ELSE IF exports[e].status # COMPLETED
    THEN [code |-> 400, detail |-> "Exportación no completada", path |-> Nothing]
    ELSE IF exports[e].expires_at < now
    THEN [code |-> 410, detail |-> "Archivo expirado", path |-> Nothing]
    ELSE IF exports[e].file_path = Nothing \/ exports[e].file_path \notin DOMAIN files
    THEN [code |-> 404, detail |-> "Archivo no encontrado", path |-> Nothing]
    ELSE [code |-> 200, detail |-> NULL, path |-> exports[e].file_path]

\* the download request: get_file_path and nothing else that changes state
Download(e) ==
    /\ resp' = [op |-> "get_file_path", code |-> get_file_path(e).code,
                detail |-> get_file_path(e).detail, id |-> e, status |-> NULL]
    /\ UNCHANGED <<documents, api_keys, edits, registryVars, genVars, contents,
                   expVars, now>>

\* time passes; the clock is read every half expiry period
Tick ==
    /\ now < MaxTime
    /\ now' = now + ExpiryHours \div 2
    /\ UNCHANGED <<documents, api_keys, edits, registryVars, genVars, contents,
                   expVars, resp>>

\* a file of the export directory is removed from outside the service
RemoveFile(path) ==
    /\ path \in DOMAIN files
    /\ files' = [p \in DOMAIN files \ {path} |-> files[p]]
    /\ UNCHANGED <<documents, api_keys, edits, registryVars, genVars, contents,
                   exports, expTask, now, resp>>

-----------------------------------------------------------------------------
(* Specifications *)

NoFiles == [path \in {} |-> NULL]

Init ==
    /\ documents = [d \in DocIds |-> "absent"]
    /\ api_keys \in KeyConfigs
    /\ services = initialize_ai_service(api_keys).services
    /\ primary_provider = initialize_ai_service(api_keys).primary_provider
    /\ fallback_providers = initialize_ai_service(api_keys).fallback_providers
    /\ generations = <<>>
    /\ genTask = <<>>
    /\ contents = <<>>
    /\ edits = <<>>
    /\ exports = <<>>
    /\ expTask = <<>>
    /\ files = NoFiles
    /\ now = 0
    /\ resp = NoResponse

\* the generation pipeline on its own
NextGen ==
    \/ \E d \in DocIds, extracted \in BOOLEAN : UploadDocument(d, extracted)
    \/ \E d \in DocIds : DeleteDocument(d)
    \/ \E d \in DocIds, ctype \in RequestContentTypes, provider \in RequestProviders :
           GenerateContent(d, ctype, provider, MaxGenerations)
    \/ \E j \in GenIds : GenPickup(j)
    \/ \E j \in GenIds : GenBuildPrompt(j)
    \/ \E j \in GenIds, failing \in SUBSET services : GenDispatch(j, failing)
    \/ \E j \in GenIds : GenReturn(j)
    \/ \E j \in GenIds, stored \in BOOLEAN : GenFinish(j, stored)
    \/ \E j \in 1..(Len(generations) + 1) : GetGenerationStatus(j)

SpecGen == Init /\ [][NextGen]_vars


\* two generations that ran to completion at time 0 with only the groq key
\* configured: the first got the groq text, the second (requesting a
\* provider that is not registered, the primary failing) the demo document
SeedKeys == {"groq"}
SeedCall(provider, failing) ==
    multi_generate_content(initialize_ai_service(SeedKeys), provider, failing)
SeedGeneration(provider) ==
    [document_id |-> 1, content_type |-> "study_guide", ai_provider |-> provider,
     status |-> COMPLETED, progress |-> 100, error_message |-> Nothing,
     created_at |-> 0, started_at |-> 0, completed_at |-> 0]
SeedTask(provider, failing) ==
    [pc |-> "done", call |-> SeedCall(provider, failing), dispatches |-> 1]

InitExport ==
    /\ documents = [d \in DocIds |-> IF d = 1 THEN "processed" ELSE "absent"]
    /\ api_keys = SeedKeys
    /\ services = initialize_ai_service(api_keys).services
    /\ primary_provider = initialize_ai_service(api_keys).primary_provider
    /\ fallback_providers = initialize_ai_service(api_keys).fallback_providers
    /\ generations = <<SeedGeneration("groq"), SeedGeneration("xai")>>
    /\ genTask = <<SeedTask("groq", {}), SeedTask("xai", {"groq"})>>
    /\ contents = <<NewContent(1, structure_content(genTask[1].call.text)),
                    NewContent(2, structure_content(genTask[2].call.text))>>
    /\ edits = <<>>
    /\ exports = <<>>
    /\ expTask = <<>>
    /\ files = NoFiles
    /\ now = 0
    /\ resp = NoResponse

RequestFormats == {"pdf", "txt"}
RequestTemplates == {NoValue, 2}
RequestContentIds == 1..(Len(contents) + 1)
\* lists a combined request names: the newest content alone, the oldest and
\* the newest in both orders, a list with an id that does not exist, and a
\* list that names the newest content twice
RequestContentLists ==
    LET n == Len(contents) IN {<<n>>, <<1, n>>, <<n, 1>>, <<n, n + 1>>, <<n, n>>}
RenderOutcomes == {"ok", "write", "stat", "commit"}

\* the export pipeline on its own, over contents generated before
NextExport ==
    \/ \E c \in RequestContentIds, format \in RequestFormats,
          template_id \in RequestTemplates :
           ExportIndividual(c, format, template_id, MaxExports)
    \/ \E cids \in RequestContentLists, format \in RequestFormats,
          template_id \in RequestTemplates :
           ExportCombined(cids, format, template_id, MaxExports)
    \/ \E e \in ExportIds : ExpPickup(e)
    \/ \E e \in ExportIds : ExpFetch(e)
    \/ \E e \in ExportIds : ExpName(e)
    \/ \E e \in ExportIds, outcome \in RenderOutcomes : ExpRender(e, outcome)
    \/ \E e \in 1..(Len(exports) + 1) : GetExportStatus(e)
    \/ \E e \in 1..(Len(exports) + 1) : Download(e)
    \/ \E path \in DOMAIN files : RemoveFile(path)
    \/ Tick

SpecExport == InitExport /\ [][NextExport]_vars

\* both pipelines and the content edits together, from an empty store,
\* within one tick of the clock
Next ==
    \/ \E d \in DocIds, extracted \in BOOLEAN : UploadDocument(d, extracted)
    \/ \E d \in DocIds : DeleteDocument(d)
    \/ \E d \in DocIds, ctype \in RequestContentTypes, provider \in RequestProviders :
           GenerateContent(d, ctype, provider, MaxGenerations)
    \/ \E j \in GenIds : GenPickup(j)
    \/ \E j \in GenIds : GenBuildPrompt(j)
    \/ \E j \in GenIds, failing \in SUBSET services : GenDispatch(j, failing)
    \/ \E j \in GenIds : GenReturn(j)
    \/ \E j \in GenIds, stored \in BOOLEAN : GenFinish(j, stored)
    \/ \E j \in 1..(Len(generations) + 1) : GetGenerationStatus(j)
    \/ \E c \in RequestContentIds, title \in {NULL, "Edited"} :
           UpdateContent(c, title, MaxVersion)
    \/ \E c \in RequestContentIds : DeleteContent(c)
    \/ \E c \in RequestContentIds, format \in RequestFormats :
           ExportIndividual(c, format, NoValue, MaxExports)
    \/ \E cids \in RequestContentLists, format \in RequestFormats :
           ExportCombined(cids, format, NoValue, MaxExports)
    \/ \E e \in ExportIds : ExpPickup(e)
    \/ \E e \in ExportIds : ExpFetch(e)
    \/ \E e \in ExportIds : ExpName(e)
    \/ \E e \in ExportIds, outcome \in RenderOutcomes : ExpRender(e, outcome)
    \/ \E e \in 1..(Len(exports) + 1) : GetExportStatus(e)
    \/ \E e \in 1..(Len(exports) + 1) : Download(e)
    \/ \E path \in DOMAIN files : RemoveFile(path)

\* the service as deployed with the groq key only
InitGroq == Init /\ api_keys = SeedKeys

Spec == InitGroq /\ [][Next]_vars

-----------------------------------------------------------------------------
(* The registry on its own: any sequence of add_provider calls, and         *)
(* dispatches with any choice of failing backends.                          *)

\* providers registered in this specification; their texts differ
RegistryProviders == {"openai", "gemini", "groq"}

\* MultiAIService.add_provider; the list of fallbacks is kept within MaxAdds
AddProvider(provider, is_primary) ==
    /\ is_primary \/ Len(fallback_providers) < MaxAdds
    /\ services' = add_provider(Registry, provider, is_primary).services
    /\ primary_provider' = add_provider(Registry, provider, is_primary).primary_provider
    /\ fallback_providers' =
           add_provider(Registry, provider, is_primary).fallback_providers
    /\ UNCHANGED <<documents, api_keys, edits, genVars, contents, expVars, now, resp>>

\* a call of MultiAIService.generate_content; resp keeps the arguments and
\* what the call returned or raised
Dispatch(provider, failing) ==
    /\ resp' = [op |-> "multi_generate_content", provider |-> provider,
                failing |-> failing,
                result |-> multi_generate_content(Registry, provider, failing)]
    /\ UNCHANGED <<documents, api_keys, edits, registryVars, genVars, contents,
                   expVars, now>>

InitDispatch ==
    /\ Init
    /\ api_keys = {}

NextDispatch ==
    \/ \E provider \in RegistryProviders, is_primary \in BOOLEAN :
           AddProvider(provider, is_primary)
    \/ \E provider \in RegistryProviders \cup {NULL, "xai"},
          failing \in SUBSET RegistryProviders :
           Dispatch(provider, failing)

SpecDispatch == InitDispatch /\ [][NextDispatch]_vars

-----------------------------------------------------------------------------
(* Properties of the generation pipeline (SpecGen) *)

GenPair(row) == <<row.status, row.progress>>

\* C1: the progress a status reader can read from a generation row never
\* decreases from one step to the next; a row that is COMPLETED reads 100,
\* and a row that is FAILED reads the progress it had before it failed and
\* keeps it.
C1_ProgressNeverRollsBack ==
    [][\A j \in GenIds :
          /\ generations'[j].progress >= generations[j].progress
          /\ generations'[j].status = COMPLETED => generations'[j].progress = 100
          /\ generations'[j].status = FAILED =>
                 generations'[j].progress = generations[j].progress]_vars

\* a reader has just read a job that failed during the provider call and is
\* frozen at 30
C1_Witness ==
    /\ resp.op = "get_generation_status"
    /\ resp.code = 200
    /\ generations[resp.id].status = FAILED
    /\ generations[resp.id].progress = 30

\* C7 (as claimed): no job ends FAILED with the error of a provider call as
\* its only failure; it ends COMPLETED, with the demo document if need be.
C7_NeverFailsOnProviderError ==
    \A j \in GenIds :
        genTask[j].dispatches > 0 /\ genTask[j].call.raised =>
            generations[j].status # FAILED

GenPath ==
    { <<<<STARTED, 0>>, <<IN_PROGRESS, 10>>>>,
      <<<<IN_PROGRESS, 10>>, <<IN_PROGRESS, 30>>>>,
      <<<<IN_PROGRESS, 30>>, <<IN_PROGRESS, 70>>>>,
      <<<<IN_PROGRESS, 70>>, <<COMPLETED, 100>>>> }

FailsFrom(checkpoints) ==
    {<<<<IN_PROGRESS, p>>, <<FAILED, p>>>> : p \in checkpoints}

\* C8: a generation row starts at (STARTED, 0) and every change of its
\* (status, progress) is one edge of the path
\* (STARTED,0) -> (IN_PROGRESS,10) -> (IN_PROGRESS,30) -> (IN_PROGRESS,70)
\* -> (COMPLETED,100) or a failure (IN_PROGRESS,p) -> (FAILED,p); while the
\* provider call is in flight the row reads (IN_PROGRESS,30), and it reads 70
\* or more only once a call has returned without raising.
C8_GenerationPath ==
    [][\A j \in 1..Len(generations') :
          /\ IF j \in GenIds
             THEN \/ GenPair(generations'[j]) = GenPair(generations[j])
                  \/ <<GenPair(generations[j]), GenPair(generations'[j])>>
                         \in GenPath \cup FailsFrom({10, 30, 70})
             ELSE GenPair(generations'[j]) = <<STARTED, 0>>
          /\ genTask'[j].pc \in {"dispatch", "awaiting"} =>
                 GenPair(generations'[j]) = <<IN_PROGRESS, 30>>
          /\ generations'[j].progress >= 70 =>
                 /\ genTask'[j].pc \in {"structure", "done"}
                 /\ genTask'[j].dispatches = 1
                 /\ ~genTask'[j].call.raised]_vars

\* the provider call of a job has returned and the row reads 70
C8_Witness ==
    \E j \in GenIds :
        /\ genTask[j].pc = "structure"
        /\ GenPair(generations[j]) = <<IN_PROGRESS, 70>>

PromptErrors ==
    { <<"'NoneType' object has no attribute 'text_content'">>,
      <<"'NoneType' object is not subscriptable">> }

-----------------------------------------------------------------------------
(* Properties of both pipelines together (Spec) *)

Frozen(row, row2) ==
    Terminal(row.status) =>
        /\ row2.status = row.status
        /\ row2.progress = row.progress
        /\ row2.error_message = row.error_message

\* C2: once a generation or an export row is COMPLETED or FAILED, no step of
\* any request or worker changes its status, progress or error_message.
C2_TerminalIsFrozen ==
    [][/\ \A j \in GenIds : Frozen(generations[j], generations'[j])
       /\ \A e \in ExportIds : Frozen(exports[e], exports'[e])]_vars

\* a generation and an export are both over, the content has been edited
\* since, and the artifact has just been retrieved
C2_Witness ==
    /\ \E j \in GenIds : Terminal(generations[j].status)
    /\ \E e \in ExportIds : Terminal(exports[e].status)
    /\ \E c \in ContentIds : contents[c].version > 1
    /\ resp.op = "get_file_path"
    /\ resp.code = 200

-----------------------------------------------------------------------------
(* Properties of the export pipeline (SpecExport) *)

ExportPath ==
    { <<<<STARTED, 0>>, <<IN_PROGRESS, 10>>>>,
      <<<<IN_PROGRESS, 10>>, <<IN_PROGRESS, 30>>>>,
      <<<<IN_PROGRESS, 30>>, <<IN_PROGRESS, 60>>>>,
      <<<<IN_PROGRESS, 60>>, <<COMPLETED, 100>>>> }

\* C9: an export row, individual or combined, starts at (STARTED, 0) and
\* every change of its (status, progress) is one edge of the path
\* (STARTED,0) -> (IN_PROGRESS,10) -> (IN_PROGRESS,30) -> (IN_PROGRESS,60)
\* -> (COMPLETED,100) or a failure (IN_PROGRESS,p) -> (FAILED,p); it reads 30
\* or more only after the contents were fetched and 60 or more only after the
\* file name was assigned.
C9_ExportPath ==
    [][\A e \in 1..Len(exports') :
          /\ IF e \in ExportIds
             THEN \/ GenPair(exports'[e]) = GenPair(exports[e])
                  \/ <<GenPair(exports[e]), GenPair(exports'[e])>>
                         \in ExportPath \cup FailsFrom({10, 30, 60})
             ELSE GenPair(exports'[e]) = <<STARTED, 0>>
          /\ exports'[e].progress >= 30 => expTask'[e].fetched # <<>>
          /\ exports'[e].progress >= 60 => expTask'[e].filename # Nothing]_vars

\* a combined export has failed after its file name was assigned
C9_Witness ==
    \E e \in ExportIds :
        /\ exports[e].export_type = "combined"
        /\ GenPair(exports[e]) = <<FAILED, 60>>

\* a step of the download request: it answers and changes nothing else
DownloadStep ==
    /\ resp'.op = "get_file_path"
    /\ UNCHANGED <<exports, expTask, files, now>>

\* C3: get_file_path answers with the first of its four checks that fails:
\* 404 for an unknown export, else 400 when the status is not COMPLETED
\* (also past the expiry), else 410 when now is past expires_at (whether or
\* not the file exists), else 404 when the recorded path is not in storage.
C3_ChecksInOrder ==
    [][DownloadStep =>
          LET e == resp'.id IN
          IF e \notin ExportIds
          THEN resp'.code = 404 /\ resp'.detail = "Exportación no encontrada"
          ELSE IF exports[e].status # COMPLETED
          THEN resp'.code = 400
          ELSE IF now > exports[e].expires_at
          THEN resp'.code = 410
          ELSE exports[e].file_path \notin DOMAIN files =>
                   resp'.code = 404 /\ resp'.detail = "Archivo no encontrado"]_vars

\* a COMPLETED export is past its expiry, its file is still in storage, and
\* the download has just answered 410
C3_Witness ==
    /\ resp.op = "get_file_path"
    /\ resp.code = 410
    /\ resp.id \in ExportIds
    /\ exports[resp.id].status = COMPLETED
    /\ now > exports[resp.id].expires_at
    /\ exports[resp.id].file_path \in DOMAIN files

\* C4 (as claimed): for an existing export the path is returned exactly when
\* status = COMPLETED, now < expires_at and the file exists.
C4_ReturnsIffBeforeExpiry ==
    [][DownloadStep /\ resp'.id \in ExportIds =>
          (resp'.code = 200 <=>
              /\ exports[resp'.id].status = COMPLETED
              /\ now < exports[resp'.id].expires_at
              /\ exports[resp'.id].file_path \in DOMAIN files)]_vars

\* C4 (amended): for an existing export the path is returned exactly when
\* status = COMPLETED, now <= expires_at and the file exists.
C4_ReturnsIffNotPastExpiry ==
    [][DownloadStep /\ resp'.id \in ExportIds =>
          (resp'.code = 200 <=>
              /\ exports[resp'.id].status = COMPLETED
              /\ now <= exports[resp'.id].expires_at
              /\ exports[resp'.id].file_path \in DOMAIN files)]_vars

\* the path has just been returned at the very instant of the expiry
C4_Witness ==
    /\ resp.op = "get_file_path"
    /\ resp.code = 200
    /\ resp.id \in ExportIds
    /\ now = exports[resp.id].expires_at

-----------------------------------------------------------------------------
(* Properties of the registry (SpecDispatch) *)

\* a step of a dispatch: it answers and leaves the registry as it is
DispatchStep ==
    /\ resp'.op = "multi_generate_content"
    /\ UNCHANGED registryVars

Registered(p) == p # NULL /\ p \in services

FirstWorking(fbs, failing) ==
    fbs[CHOOSE i \in 1..Len(fbs) :
            /\ fbs[i] \notin failing
            /\ \A k \in 1..(i - 1) : fbs[k] \in failing]

\* C5: without an explicit provider, a registered primary that fails and a
\* fallback that works give the text of the (first working) fallback; with
\* an explicit registered provider that fails, the call raises that
\* provider's error and no other provider is invoked.
C5_FallbackAndOverride ==
    [][DispatchStep =>
          LET r == resp'.result
              failing == resp'.failing
          IN  /\ (/\ resp'.provider = NULL
                  /\ Registered(primary_provider)
                  /\ primary_provider \in failing
                  /\ Range(fallback_providers) \ failing # {}) =>
                     /\ ~r.raised
                     /\ r.text = BackendText(FirstWorking(fallback_providers, failing))
                     /\ r.calls[1] = primary_provider
                     /\ r.calls[Len(r.calls)] =
                            FirstWorking(fallback_providers, failing)
              /\ (Registered(resp'.provider) /\ resp'.provider \in failing) =>
                     /\ r.raised
                     /\ r.error = ProviderError(resp'.provider)
                     /\ r.calls = <<resp'.provider>>]_vars

\* the primary failed and the call returned the text of the one fallback
C5_Witness ==
    /\ resp.op = "multi_generate_content"
    /\ resp.provider = NULL
    /\ Registered(primary_provider)
    /\ Len(fallback_providers) = 1
    /\ fallback_providers[1] # primary_provider
    /\ resp.result.calls = <<primary_provider, fallback_providers[1]>>
    /\ resp.result.text = BackendText(fallback_providers[1])

\* C6: a dispatch that names no provider, or one that is not registered,
\* never raises; when the registry is empty, or the primary and every
\* fallback fail, it returns the demo document.
C6_DegradesToDemo ==
    [][DispatchStep /\ ~Registered(resp'.provider) =>
          /\ ~resp'.result.raised
          /\ (/\ Registered(primary_provider) => primary_provider \in resp'.failing
              /\ Range(fallback_providers) \subseteq resp'.failing) =>
                 resp'.result.text = DemoText]_vars

\* the primary and a fallback were both invoked, both failed, and the call
\* returned the demo document
C6_Witness ==
    /\ resp.op = "multi_generate_content"
    /\ ~Registered(resp.provider)
    /\ Len(resp.result.calls) >= 2
    /\ Range(resp.result.calls) \subseteq resp.failing
    /\ ~resp.result.raised
    /\ resp.result.text = DemoText

-----------------------------------------------------------------------------
(* Properties of the export workers and requests (SpecExport) *)

ArtifactFieldsSet(row) ==
    {row.filename # Nothing, row.file_path # Nothing,
     row.file_size # NoValue, row.download_url # Nothing}

\* C12 (as claimed): the four artifact fields of an export row are all unset
\* or all set, and they are set only when the row is COMPLETED.
C12_ArtifactFieldsTogether ==
    \A e \in ExportIds :
        /\ Cardinality(ArtifactFieldsSet(exports[e])) = 1
        /\ TRUE \in ArtifactFieldsSet(exports[e]) => exports[e].status = COMPLETED

\* C13: the row of a new export has expires_at = its creation time + 24
\* hours, and no later step (worker, status query, retrieval, clock) changes
\* the expires_at of a row.
C13_ExpiryIsFixed ==
    [][\A e \in 1..Len(exports') :
          IF e \in ExportIds
          THEN exports'[e].expires_at = exports[e].expires_at
          ELSE /\ exports'[e].expires_at = now + ExpiryHours
               /\ exports'[e].created_at = now]_vars

\* an export created after the start of the clock was worked on later and
\* its artifact has just been retrieved; it still expires 24 hours after its
\* creation
C13_Witness ==
    \E e \in ExportIds :
        /\ exports[e].created_at > 0
        /\ exports[e].completed_at > exports[e].created_at
        /\ exports[e].expires_at = exports[e].created_at + ExpiryHours
        /\ resp.op = "get_file_path"
        /\ resp.id = e
        /\ resp.code = 200

\* a step in which a creation request of kind op is answered
RequestStep(op) == resp'.op = op /\ resp' # resp

NewIds(old, new) == (1..Len(new)) \ (1..Len(old))

JobStoresUnchanged == UNCHANGED <<generations, genTask, exports, expTask>>

\* C14: a Generation row is only ever created for a document that exists,
\* and an individual Export row for a content id that exists; a creation
\* request is answered 200 with exactly one new row and one worker, or 404
\* (NotFound) with the job stores and workers as they were.
C14_MissingInputIsRejected ==
    [][/\ \A j \in NewIds(generations, generations') :
              /\ generations'[j].document_id \in DocIds
              /\ documents[generations'[j].document_id] \in {"processed", "error"}
       /\ \A e \in NewIds(exports, exports') :
              exports'[e].export_type = "individual" =>
                  exports'[e].content_ids[1] \in ContentIds
       /\ RequestStep("generate_content") =>
              \/ /\ resp'.code = 404
                 /\ resp'.detail = "Documento no encontrado"
                 /\ JobStoresUnchanged
              \/ /\ resp'.code = 200
                 /\ NewIds(generations, generations') = {resp'.id}
                 /\ genTask'[resp'.id].pc = "scheduled"
       /\ RequestStep("export_individual") =>
              \/ /\ resp'.code = 404
                 /\ resp'.detail = "Contenido no encontrado"
                 /\ JobStoresUnchanged
              \/ /\ resp'.code = 200
                 /\ NewIds(exports, exports') = {resp'.id}
                 /\ expTask'[resp'.id].pc = "scheduled"]_vars

\* a generation was requested for a document that had been deleted: 404, and
\* no row and no worker
C14_Witness ==
    /\ resp.op = "generate_content"
    /\ resp.code = 404
    /\ documents[1] = "deleted"
    /\ generations = <<>>
    /\ genTask = <<>>

\* C15 (as claimed): no Export row, individual or combined, is created with
\* a template_id that refers to no template.
C15_UnknownTemplateIsRejected ==
    [][\A e \in NewIds(exports, exports') :
          exports'[e].template_id \in Templates \cup {NoValue}]_vars

\* C16 (as claimed): a combined request is rejected (404, no row) exactly
\* when one of the ids it names refers to no content; repeated ids are
\* allowed.
C16_RejectedIffAnIdIsMissing ==
    [][RequestStep("export_combined") =>
          LET requested == IF resp'.code = 200
                           THEN exports'[resp'.id].content_ids
                           ELSE resp'.request
          IN  /\ resp'.code \in {200, 404}
              /\ resp'.code = 404 <=> Range(requested) \ ContentIds # {}
              /\ resp'.code = 404 => JobStoresUnchanged
              /\ resp'.code = 200 => NewIds(exports, exports') = {resp'.id}]_vars

\* C17 (as claimed): the file of a completed combined export holds the
\* contents in the order of the request.
C17_CombinedInRequestOrder ==
    \A e \in ExportIds :
        (/\ exports[e].export_type = "combined"
         /\ exports[e].status = COMPLETED
         /\ exports[e].file_path \in DOMAIN files) =>
            files[exports[e].file_path].parts =
                [i \in 1..Len(exports[e].content_ids) |->
                    Part(exports[e].content_ids[i])]

-----------------------------------------------------------------------------
(* Properties of the rows a run leaves behind *)

\* C18: a generation job has no Content row in any state where it is not
\* COMPLETED and exactly one once it is COMPLETED (the row and the status are
\* committed together), and a status query returns accordingly: an empty
\* result list with any other status, one result with COMPLETED.
C18_ContentComesWithCompleted ==
    /\ \A j \in GenIds :
           Cardinality(ContentsOf(j)) =
               IF generations[j].status = COMPLETED THEN 1 ELSE 0
    /\ resp.op = "get_generation_status" /\ resp.code = 200 =>
           Cardinality(resp.results) = IF resp.status = COMPLETED THEN 1 ELSE 0

\* a status query has just returned COMPLETED with one result
C18_Witness ==
    /\ resp.op = "get_generation_status"
    /\ resp.code = 200
    /\ resp.status = COMPLETED
    /\ Cardinality(resp.results) = 1

\* C19: the step that completes a generation job persists one Content row,
\* of that job, with version 1, is_active true, the content type of the job
\* and content_metadata.ai_provider equal to the provider of the job.
C19_PersistedContent ==
    [][\A j \in GenIds :
          generations[j].status # COMPLETED /\ generations'[j].status = COMPLETED =>
              /\ Len(contents') = Len(contents) + 1
              /\ LET content == contents'[Len(contents')] IN
                     /\ content.generation_id = j
                     /\ content.version = 1
                     /\ content.is_active = TRUE
                     /\ content.content_type = generations[j].content_type
                     /\ content.content_metadata.ai_provider =
                            generations[j].ai_provider]_vars

\* a job that asked for a provider that is not registered has completed; its
\* content names that provider
C19_Witness ==
    \E j \in GenIds :
        /\ generations[j].status = COMPLETED
        /\ generations[j].ai_provider \notin services
        /\ genTask[j].call.calls # <<>>
        /\ \E c \in ContentsOf(j) :
               /\ contents[c].version = 1
               /\ contents[c].is_active
               /\ contents[c].content_metadata.ai_provider =
                      generations[j].ai_provider

RowTimestamps(row) ==
    /\ row.error_message # Nothing => row.status = FAILED
    /\ row.completed_at # NoValue <=> row.status \in {COMPLETED, FAILED}

\* C20: in every state every generation row and every export row has an
\* error_message only if it is FAILED, and a completed_at exactly when it is
\* COMPLETED or FAILED.
C20_MessageAndCompletion ==
    /\ \A j \in GenIds : RowTimestamps(generations[j])
    /\ \A e \in ExportIds : RowTimestamps(exports[e])

\* a completed generation and a failed export side by side
C20_Witness ==
    /\ \E j \in GenIds :
           /\ generations[j].status = COMPLETED
           /\ generations[j].completed_at # NoValue
    /\ \E e \in ExportIds :
           /\ exports[e].status = FAILED
           /\ exports[e].error_message # Nothing
           /\ exports[e].completed_at # NoValue

-----------------------------------------------------------------------------
(* The structuring on its own: _structure_content applied to any text of    *)
(* up to MaxLines lines drawn from SampleLines.                             *)

\* lines a generated text is made of here: a plain line, a "# " heading, one
\* line for each keyword group (two for the objectives, "objetivo" and
\* "objective"), and a line that carries keywords of two groups
SampleLines ==
    { Line("texto", FALSE, {}),
      Line("Título", TRUE, {}),
      Line("## Introducción", FALSE, {"introducción"}),
      Line("## Objetivos", FALSE, {"objetivo"}),
      Line("## Objectives", FALSE, {"objective"}),
      Line("## Conclusión", FALSE, {"conclusión"}),
      Line("Objectives and conclusion", FALSE, {"objective", "conclusion"}) }

\* ai_content.split('\n') has at least one line
Texts == UNION {[1..n -> SampleLines] : n \in 1..MaxLines}

\* a call of _structure_content; resp keeps the text and what was returned
Structure(text) ==
    /\ resp' = [op |-> "structure_content", input |-> text,
                result |-> structure_content(text)]
    /\ UNCHANGED <<documents, api_keys, edits, registryVars, genVars, contents,
                   expVars, now>>

InitStructure ==
    /\ Init
    /\ api_keys = {}

NextStructure == \E text \in Texts : Structure(text)

SpecStructure == InitStructure /\ [][NextStructure]_vars

-----------------------------------------------------------------------------
(* Properties of the structuring (SpecStructure) *)

SectionKeywords == IntroKeywords \cup ObjectiveKeywords \cup ConclusionKeywords

KeywordFree(text) == \A i \in 1..Len(text) : text[i].kw \cap SectionKeywords = {}

Headings(text) == {i \in 1..Len(text) : text[i].h1}

OnlyDevelopment(text, sections) ==
    /\ sections.development = text
    /\ sections.introduction = <<>>
    /\ sections.objectives = <<>>
    /\ sections.conclusion = <<>>

\* C28 (as claimed): a text without a keyword line goes whole into the
\* development section, the other sections stay empty and the title is the
\* default title.
C28_KeywordFreeGetsDefaultTitle ==
    resp.op = "structure_content" /\ KeywordFree(resp.input) =>
        /\ OnlyDevelopment(resp.input, resp.result.sections)
        /\ resp.result.title = DefaultTitle

\* C28 (amended): a text without a keyword line goes whole into the
\* development section and the other sections stay empty; the title is the
\* text of its first "# " line, and the default title only when it has none.
C28_KeywordFreeGoesToDevelopment ==
    resp.op = "structure_content" /\ KeywordFree(resp.input) =>
        /\ OnlyDevelopment(resp.input, resp.result.sections)
        /\ resp.result.title =
               IF Headings(resp.input) = {} THEN DefaultTitle
               ELSE resp.input[CHOOSE i \in Headings(resp.input) :
                                   \A k \in Headings(resp.input) : i <= k].txt

\* a text of a plain line and a heading, no keyword: all of it is in
\* development and the title is the heading
C28_Witness ==
    /\ resp.op = "structure_content"
    /\ Len(resp.input) >= 2
    /\ KeywordFree(resp.input)
    /\ ~resp.input[1].h1
    /\ Headings(resp.input) # {}
    /\ resp.result.title = "Título"
    /\ resp.result.sections.development = resp.input

SectionNames == {"introduction", "objectives", "development", "conclusion"}

\* the lines of text from position i on that owner assigns to section name
RECURSIVE LinesOf(_, _, _, _)
LinesOf(text, owner, name, i) ==
    IF i > Len(text) THEN <<>>
    ELSE (IF owner[i] = name THEN <<text[i]>> ELSE <<>>)
             \o LinesOf(text, owner, name, i + 1)

\* C29 (as claimed): the four sections partition the text: there is an
\* assignment of each line to one section such that every section holds
\* exactly its lines, in the order of the text.
C29_SectionsPartitionText ==
    resp.op = "structure_content" =>
        \E owner \in [1..Len(resp.input) -> SectionNames] :
            \A name \in SectionNames :
                resp.result.sections[name] = LinesOf(resp.input, owner, name, 1)

ClaimedGroup(line) ==
    IF line.kw \cap {"introducción", "introduction"} # {} THEN "introduction"
    ELSE IF line.kw \cap {"objetivo", "objective"} # {} THEN "objectives"
    ELSE "conclusion"

KeywordLines(text) == {i \in 1..Len(text) : text[i].kw \cap SectionKeywords # {}}

\* C30 (as claimed): the last keyword line of a text and the keyword-free
\* lines after it are the content of the section of its first keyword group
\* in the order introduction ("introducción", "introduction"), objectives
\* ("objetivo", "objective"), conclusion; so a line with an objective keyword
\* and no introduction keyword opens the objectives section.
C30_ObjectiveLineOpensObjectives ==
    resp.op = "structure_content" /\ KeywordLines(resp.input) # {} =>
        LET text == resp.input
            last == CHOOSE i \in KeywordLines(text) :
                        \A k \in KeywordLines(text) : k <= i
        IN  resp.result.sections[ClaimedGroup(text[last])] =
                SubSeq(text, last, Len(text))

-----------------------------------------------------------------------------
(* Properties of the registry and of the order of dispatch (SpecDispatch) *)

\* position of the first occurrence of p in the list fbs
FirstAt(fbs, p) ==
    CHOOSE i \in 1..Len(fbs) : fbs[i] = p /\ \A k \in 1..(i - 1) : fbs[k] # p

\* C26 (as claimed): a registration adds one provider to the services and
\* either makes it the primary or leaves the primary as it was; after it,
\* every registered provider other than the primary is in the list of
\* fallbacks, and the fallbacks that were listed keep their relative order.
C26_OthersAreFallbacks ==
    [][registryVars' # registryVars =>
          /\ \E p \in RegistryProviders :
                 /\ services' = services \cup {p}
                 /\ primary_provider' \in {p, primary_provider}
          /\ services' \ {primary_provider'} \subseteq Range(fallback_providers')
          /\ \A a, b \in Range(fallback_providers) :
                 FirstAt(fallback_providers, a) < FirstAt(fallback_providers, b) =>
                     /\ {a, b} \subseteq Range(fallback_providers')
                     /\ FirstAt(fallback_providers', a) <
                            FirstAt(fallback_providers', b)]_vars

\* the providers a dispatch without an explicit provider may invoke, in order
DispatchOrder ==
    (IF Registered(primary_provider) THEN <<primary_provider>> ELSE <<>>)
        \o fallback_providers

\* C27: a dispatch that names no (registered) provider invokes a prefix of
\* the primary followed by the fallbacks in registration order; every
\* provider invoked before the last one failed; if the last one succeeded
\* its text is returned, and otherwise every provider of the order has been
\* invoked.
C27_InOrderUntilFirstSuccess ==
    [][DispatchStep /\ ~Registered(resp'.provider) =>
          LET r == resp'.result
              n == Len(r.calls)
          IN  /\ n <= Len(DispatchOrder)
              /\ r.calls = SubSeq(DispatchOrder, 1, n)
              /\ \A i \in 1..(n - 1) : r.calls[i] \in resp'.failing
              /\ IF n > 0 /\ r.calls[n] \notin resp'.failing
                 THEN ~r.raised /\ r.text = BackendText(r.calls[n])
                 ELSE n = Len(DispatchOrder)]_vars

\* the primary failed, the first of two fallbacks answered, and the second,
\* which would have answered too, was not invoked
C27_Witness ==
    /\ resp.op = "multi_generate_content"
    /\ resp.provider = NULL
    /\ Registered(primary_provider)
    /\ Len(fallback_providers) = 2
    /\ fallback_providers[1] # fallback_providers[2]
    /\ primary_provider \notin Range(fallback_providers)
    /\ fallback_providers[2] \notin resp.failing
    /\ resp.result.calls = <<primary_provider, fallback_providers[1]>>
    /\ resp.result.text = BackendText(fallback_providers[1])

-----------------------------------------------------------------------------
(* Properties of the hand-over from a request to its worker (Spec) *)

CreationOps == {"generate_content", "export_individual", "export_combined"}

\* C23: the request that creates a job returns before the worker of the job
\* has taken a step: the step that adds a generation or an export row
\* answers with its id and the status STARTED, the row is (STARTED, 0)
\* without started_at and its worker is scheduled, not yet picked up; and a
\* creating request that succeeds answers STARTED.
C23_ReturnsBeforeTheWorkerRuns ==
    [][/\ Len(generations') > Len(generations) =>
              LET j == Len(generations') IN
              /\ resp' = Response("generate_content", 200, j, STARTED)
              /\ generations'[j].status = STARTED
              /\ generations'[j].progress = 0
              /\ generations'[j].started_at = NoValue
              /\ genTask'[j].pc = "scheduled"
       /\ Len(exports') > Len(exports) =>
              LET e == Len(exports') IN
              /\ resp'.op \in {"export_individual", "export_combined"}
              /\ resp' = Response(resp'.op, 200, e, STARTED)
              /\ exports'[e].status = STARTED
              /\ exports'[e].progress = 0
              /\ exports'[e].started_at = NoValue
              /\ expTask'[e].pc = "scheduled"
       /\ \A op \in CreationOps :
              RequestStep(op) /\ resp'.code = 200 =>
                  /\ resp'.status = STARTED
                  /\ Len(generations') + Len(exports') =
                         Len(generations) + Len(exports) + 1]_vars

\* a generation request has just returned: status STARTED in the answer,
\* (STARTED, 0) in the row, the worker still to be picked up
C23_Witness ==
    /\ resp = Response("generate_content", 200, Len(generations), STARTED)
    /\ Len(generations) >= 1
    /\ generations[Len(generations)].status = STARTED
    /\ generations[Len(generations)].progress = 0
    /\ genTask[Len(generations)].pc = "scheduled"

\* C25: while the provider call of a job has not returned, the row of the
\* job is IN_PROGRESS at progress 30 and no step of any operation changes
\* it; nothing but the return of the call moves the job on.
C25_HungCallStaysInProgress ==
    [][\A j \in 1..Len(genTask') :
           genTask'[j].pc = "awaiting" =>
               /\ generations'[j].status = IN_PROGRESS
               /\ generations'[j].progress = 30
               /\ generations'[j].completed_at = NoValue
               /\ (j <= Len(genTask) /\ genTask[j].pc = "awaiting") =>
                      generations'[j] = generations[j]]_vars

\* the call of a job is outstanding, its document has been deleted in the
\* meantime and the status has been polled: the row is still (IN_PROGRESS, 30)
C25_Witness ==
    \E j \in GenIds :
        /\ genTask[j].pc = "awaiting"
        /\ ~DocumentExists(generations[j].document_id)
        /\ resp = [results |-> {}] @@
                      Response("get_generation_status", 200, j, IN_PROGRESS)
        /\ generations[j].progress = 30

-----------------------------------------------------------------------------
(* Several jobs at a time: up to MaxConcurrent generation jobs and as many  *)
(* export jobs, their workers interleaved at the commits. The document is   *)
(* extracted, the provider answers and the file is written or not, all     *)
(* within one tick of the clock.                                            *)

NextWorkers ==
    \/ \E d \in DocIds : UploadDocument(d, TRUE)
    \/ \E d \in DocIds : GenerateContent(d, "study_guide", "groq", MaxConcurrent)
    \/ \E j \in GenIds : GenPickup(j)
    \/ \E j \in GenIds : GenBuildPrompt(j)
    \/ \E j \in GenIds : GenDispatch(j, {})
    \/ \E j \in GenIds : GenReturn(j)
    \/ \E j \in GenIds : GenFinish(j, TRUE)
    \/ \E c \in ContentIds : ExportIndividual(c, "pdf", NoValue, MaxConcurrent)
    \/ \E e \in ExportIds : ExpPickup(e)
    \/ \E e \in ExportIds : ExpFetch(e)
    \/ \E e \in ExportIds : ExpName(e)
    \/ \E e \in ExportIds, outcome \in {"ok", "write"} : ExpRender(e, outcome)

SpecWorkers == InitGroq /\ [][NextWorkers]_vars

-----------------------------------------------------------------------------
(* Properties of concurrent jobs (SpecWorkers) *)

\* every job that exists before the step, except generation job j and export
\* job e, has the same row and the same worker position after it
OthersUntouched(j, e) ==
    /\ \A k \in GenIds \ {j} :
           generations'[k] = generations[k] /\ genTask'[k] = genTask[k]
    /\ \A k \in ExportIds \ {e} :
           exports'[k] = exports[k] /\ expTask'[k] = expTask[k]

\* C24: a step that changes the row of a job is a step of the worker of that
\* job (the worker moves on, and it was not over) and changes the row and
\* the worker of no other job; a worker is scheduled only with the creation
\* of its job, and a row is picked up (started_at) only by a worker that was
\* scheduled: no job gets a second worker.
C24_OneWorkerPerJob ==
    [][/\ \A j \in GenIds :
              /\ generations'[j] # generations[j] =>
                     /\ genTask[j].pc # "done"
                     /\ genTask'[j].pc # genTask[j].pc
                     /\ OthersUntouched(j, 0)
              /\ genTask'[j].pc = "scheduled" => genTask'[j] = genTask[j]
              /\ generations'[j].started_at # generations[j].started_at =>
                     genTask[j].pc = "scheduled"
       /\ \A e \in ExportIds :
              /\ exports'[e] # exports[e] =>
                     /\ expTask[e].pc # "done"
                     /\ expTask'[e].pc # expTask[e].pc
                     /\ OthersUntouched(0, e)
              /\ expTask'[e].pc = "scheduled" => expTask'[e] = expTask[e]
              /\ exports'[e].started_at # exports[e].started_at =>
                     expTask[e].pc = "scheduled"]_vars

\* three workers at once: a generation job waiting for its provider and two
\* export jobs of the content of an earlier job, one fetching and one
\* rendering; every row shows the progress of its own worker
C24_Witness ==
    /\ Len(generations) = 2
    /\ generations[1].status = COMPLETED
    /\ genTask[2].pc = "awaiting"
    /\ generations[2].progress = 30
    /\ Len(exports) = 2
    /\ expTask[1].pc = "render"
    /\ expTask[2].pc = "fetch"
    /\ exports[1].status = IN_PROGRESS
    /\ exports[2].status = IN_PROGRESS
    /\ exports[1].progress # exports[2].progress

-----------------------------------------------------------------------------
(* The content endpoints over the two contents generated before, with up to *)
(* MaxInFlight requests between their query and their commit.               *)

NextEdit ==
    \/ \E c \in RequestContentIds : GetContentById(c)
    \/ \E c \in RequestContentIds, title \in {NULL, "Edited"} :
           UpdateRead(c, title, MaxVersion + 1)
    \/ \E i \in 1..Len(edits) : UpdateCommit(i)
    \/ \E c \in RequestContentIds : DeleteRead(c)
    \/ \E i \in 1..Len(edits) : DeleteCommit(i)

SpecEdit == InitExport /\ [][NextEdit]_vars

-----------------------------------------------------------------------------
(* Properties of the content endpoints (SpecEdit) *)

\* the step is the commit of a request op on content c that was in flight
Commits(op, c) ==
    \E i \in 1..Len(edits) :
        /\ edits[i].op = op
        /\ edits[i].id = c
        /\ edits' = RemoveAt(edits, i)
        /\ resp'.op = op

\* C21 (as claimed): a Content row is created with version 1; the step in
\* which an update_content call on a content succeeds raises the version of
\* that content by exactly one, and every other step (a rejected update, a
\* delete, a read) leaves the version as it was, so that the version is 1
\* plus the number of updates that succeeded.
C21_VersionCountsUpdates ==
    [][/\ \A c \in ContentIds :
              IF Commits("update_content", c) /\ resp'.code = 200
              THEN contents'[c].version = contents[c].version + 1
              ELSE contents'[c].version = contents[c].version
       /\ \A c \in 1..Len(contents') : c \notin ContentIds =>
              contents'[c].version = 1]_vars

-----------------------------------------------------------------------------
(* Properties of the registry and of an explicit provider (SpecDispatch) *)

\* C39 (as claimed): the list of fallbacks names no provider twice and never
\* names the primary, and a dispatch invokes no provider twice.
C39_FallbacksAreDistinct ==
    /\ \A i, k \in 1..Len(fallback_providers) :
           fallback_providers[i] = fallback_providers[k] => i = k
    /\ primary_provider \notin Range(fallback_providers)
    /\ resp.op = "multi_generate_content" =>
           \A i, k \in 1..Len(resp.result.calls) :
               resp.result.calls[i] = resp.result.calls[k] => i = k

\* C32: a dispatch that names a provider which is not registered does not
\* raise and returns what the same dispatch returns when it names no
\* provider: the provider named is not invoked, the primary is invoked
\* first when there is one, and the demo document is returned when nothing
\* answers.
C32_UnregisteredIsIgnored ==
    [][DispatchStep /\ resp'.provider # NULL /\ resp'.provider \notin services =>
          LET r == resp'.result IN
          /\ ~r.raised
          /\ r = multi_generate_content(Registry, NULL, resp'.failing)
          /\ resp'.provider \notin Range(r.calls)
          /\ Registered(primary_provider) =>
                 Len(r.calls) >= 1 /\ r.calls[1] = primary_provider
          /\ (\A i \in 1..Len(r.calls) : r.calls[i] \in resp'.failing) =>
                 r.text = DemoText]_vars

\* a dispatch named a provider that is not registered; the primary was
\* invoked and failed, and the fallback answered
C32_Witness ==
    /\ resp.op = "multi_generate_content"
    /\ resp.provider = "xai"
    /\ "xai" \notin services
    /\ Registered(primary_provider)
    /\ Len(fallback_providers) >= 1
    /\ fallback_providers[1] # primary_provider
    /\ resp.failing = {primary_provider}
    /\ resp.result.calls = <<primary_provider, fallback_providers[1]>>
    /\ resp.result.text = BackendText(fallback_providers[1])

-----------------------------------------------------------------------------
(* Properties of the provider on record (SpecGen) *)

\* C38 (as claimed): the provider named in the content_metadata of a Content
\* is the provider that answered the call of its job: it is the last
\* provider the dispatch invoked, and the stored text is the text of its
\* backend.
C38_MetadataNamesTheAnswerer ==
    \A c \in ContentIds :
        LET call == genTask[contents[c].generation_id].call
            named == contents[c].content_metadata.ai_provider
        IN  /\ call.calls # <<>>
            /\ call.calls[Len(call.calls)] = named
            /\ contents[c].markdown_content = BackendText(named)

-----------------------------------------------------------------------------
(* Properties of an export in a format without a generator (SpecExport) *)

-----------------------------------------------------------------------------
(* Properties of the progress of both kinds of job (Spec) *)

ProgressMatchesStatus(row) ==
    /\ row.progress = 100 <=> row.status = COMPLETED
    /\ row.progress = 0 <=> row.status = STARTED

\* C35: for every generation job and every export job, the progress is 100
\* exactly when the status is COMPLETED and 0 exactly when it is STARTED.
C35_ProgressMatchesStatus ==
    /\ \A j \in GenIds : ProgressMatchesStatus(generations[j])
    /\ \A e \in ExportIds : ProgressMatchesStatus(exports[e])

\* a generation job completed at 100 and an export of its content failed
\* part of the way
C35_Witness ==
    /\ Len(generations) >= 1
    /\ generations[1].status = COMPLETED
    /\ generations[1].progress = 100
    /\ Len(exports) >= 1
    /\ exports[1].status = FAILED
    /\ exports[1].progress \in 1..99

-----------------------------------------------------------------------------
(* Properties of exports and soft-deleted content (Spec) *)

\* C37 (as claimed): the step that creates an export job names only contents
\* that are active at that step; a request that names a soft-deleted
\* content creates no job.
C37_ExportsOnlyActiveContent ==
    [][Len(exports') > Len(exports) =>
          \A c \in Range(exports'[Len(exports')].content_ids) :
              ActiveContent(c)]_vars

-----------------------------------------------------------------------------
(* Properties of an update that races a delete (SpecEdit) *)

\* C36 (as claimed): no step changes the title, the body, the sections or
\* the version of a content that is inactive, and the commit of an update on
\* a content that is inactive does not answer with success.
C36_InactiveContentIsFrozen ==
    [][\A c \in ContentIds :
           ~contents[c].is_active =>
               /\ contents'[c].title = contents[c].title
               /\ contents'[c].markdown_content = contents[c].markdown_content
               /\ contents'[c].sections = contents[c].sections
               /\ contents'[c].version = contents[c].version
               /\ Commits("update_content", c) => resp'.code # 200]_vars

-----------------------------------------------------------------------------
(* Properties of the files of concurrent exports (SpecWorkers) *)

\* C34 (as claimed): two export jobs that are both COMPLETED have different
\* file paths.
C34_CompletedExportsHaveOwnFiles ==
    \A e1, e2 \in ExportIds :
        /\ e1 # e2
        /\ exports[e1].status = COMPLETED
        /\ exports[e2].status = COMPLETED
        => exports[e1].file_path # exports[e2].file_path

-----------------------------------------------------------------------------
(* The service with its workers scheduled fairly: a task created with       *)
(* asyncio.create_task is run by the event loop whenever it can take a      *)
(* step, and a provider call or a file write that has started returns or    *)
(* raises.                                                                  *)

\* the steps of the worker of generation job j
GenWorker(j) ==
    /\ j \in GenIds
    /\ \/ GenPickup(j)
       \/ GenBuildPrompt(j)
       \/ \E failing \in SUBSET services : GenDispatch(j, failing)
       \/ GenReturn(j)
       \/ \E stored \in BOOLEAN : GenFinish(j, stored)

\* the steps of the worker of export job e
ExpWorker(e) ==
    /\ e \in ExportIds
    /\ \/ ExpPickup(e)
       \/ ExpFetch(e)
       \/ ExpName(e)
       \/ \E outcome \in RenderOutcomes : ExpRender(e, outcome)

Fairness ==
    /\ \A j \in 1..MaxGenerations : WF_vars(GenWorker(j))
    /\ \A e \in 1..MaxExports : WF_vars(ExpWorker(e))

SpecFair == InitGroq /\ [][Next]_vars /\ Fairness

-----------------------------------------------------------------------------
(* Properties of termination (SpecFair) *)

=============================================================================
